---- MODULE Spec2Model ----
(***************************************************************************)
(* TripletUI (src/index.mjs): a UI element holding a standing DOM node     *)
(* (subdom), a list of event bindings (eventInterfaces), a map from tags   *)
(* to listener arrays (eventListeners) and a compiled template, with the   *)
(* operations set, on, publish and render.                                 *)
(*                                                                         *)
(* eventListeners is a plain JavaScript object ({}), so its own properties *)
(* and its prototype are both modelled: the code tests keys with the       *)
(* inherited method eventListeners.hasOwnProperty and writes them with     *)
(* eventListeners[tag] = [], which for the key "__proto__" runs the        *)
(* inherited accessor instead of creating an own property.                 *)
(***************************************************************************)
EXTENDS Integers, Sequences, FiniteSets, TLC

\* ---------------------------------------------------------------- bounds
MaxListeners == 2   \* registrations accepted per tag
MaxBindings == 2    \* entries pushed onto eventInterfaces
MaxRenders == 3     \* render calls (each creates fresh DOM nodes)
MaxDepth == 2       \* nested publish calls the call stack has room for

\* ---------------------------------------------------------------- inputs
Undefined == "undefined"
Keys == {"name", "label"}
\* A property value that is a function which throws: Handlebars calls a
\* function found in the context to get the value to write.
BadValue == "function that throws"
Values == {"Alice", "Bob", BadValue}
Tags == {"itemClicked", "saved", "hasOwnProperty", "__proto__"}
Listeners == {"f1", "f2"}

\* Listeners that do more than return: each is a closure over the instance.
Thrower == "fThrow"          \* e => { throw new Error() }
Republisher == "fPublish"    \* e => this.publish("saved", e)
Rerenderer == "fRender"      \* e => this.render(document.panel)
Registrar == "fOn"           \* e => this.on("itemClicked", f2)
DomEventNames == {"click", "keyup"}
Events == {"e1"} \cup DomEventNames
Parents == {"body", "panel"}

\* The template "<span class='item'>{{name}}</span><b class='btn'>{{label}}</b>":
\* a flat list of elements, each with a class and one property reference.
RAW_TEMPLATE ==
    << [cls |-> "item", ref |-> "name"], [cls |-> "btn", ref |-> "label"] >>

\* The bindings application code may declare.
BindingChoices ==
    { <<".item", "click", "itemClicked">>,
      <<"*", "click", "saved">>,
      <<".btn", "keyup", "__proto__">> }

\* A binding whose selector is no valid selector: querySelectorAll raises
\* SyntaxError for it.
InvalidBinding == <<"!!", "click", "itemClicked">>

VARIABLES
    props,            \* own properties of the instance assigned through set
    eventInterfaces,  \* this.eventInterfaces
    eventListeners,   \* this.eventListeners (own properties and prototype)
    subdom,           \* child nodes of this.subdom, with their handlers
    children,         \* child lists of the parent nodes of the document
    renders,          \* number of render calls so far (names fresh nodes)
    last,             \* outcome of the last call
    registered,       \* history: listeners passed to the on calls that returned
    written,          \* history: value of the last set call per key
    passed,           \* history: parents render appended the container to
    bound             \* history: the bindings the last render call bound

vars == << props, eventInterfaces, eventListeners, subdom, children, renders,
           last, registered, written, passed, bound >>

\* ------------------------------------------------------ JavaScript objects
\* Object.prototype, as the prototype of eventListeners.
ObjectPrototype == [isArray |-> FALSE, items |-> << >>]

\* A fresh array used as a prototype (obj["__proto__"] = []).
ArrayAsPrototype(items) == [isArray |-> TRUE, items |-> items]

\* this.eventListeners.hasOwnProperty resolves to Object.prototype.hasOwnProperty
\* unless an own property of that name (a listener array) shadows it; calling
\* an array raises TypeError.
HasOwnPropertyIsCallable(el) == "hasOwnProperty" \notin DOMAIN el.own

\* this.eventListeners.hasOwnProperty(tag)
HasOwnProperty(el, tag) == tag \in DOMAIN el.own

\* this.eventListeners[tag] = []: the inherited __proto__ setter replaces the
\* prototype; every other key becomes an own data property.
AssignEmptyArray(el, tag) ==
    IF tag = "__proto__"
    THEN [el EXCEPT !.proto = ArrayAsPrototype(<< >>)]
    ELSE [el EXCEPT !.own = [t \in DOMAIN el.own \cup {tag} |->
                                 IF t = tag THEN << >> ELSE el.own[t]]]

\* this.eventListeners[tag], read after the key was ensured: an own property,
\* or for "__proto__" the prototype object itself.
GetArray(el, tag) ==
    IF tag \in DOMAIN el.own THEN el.own[tag] ELSE el.proto.items

\* this.eventListeners[tag].push(listener)
PushListener(el, tag, listener) ==
    IF tag \in DOMAIN el.own
    THEN [el EXCEPT !.own[tag] = Append(@, listener)]
    ELSE [el EXCEPT !.proto.items = Append(@, listener)]

\* if (!this.eventListeners.hasOwnProperty(tag)) this.eventListeners[tag] = [];
EnsureTag(el, tag) ==
    IF HasOwnProperty(el, tag) THEN el ELSE AssignEmptyArray(el, tag)


\* ------------------------------------------------------------ last outcome
NoCall ==
    [op |-> "none", key |-> "-", tag |-> "-", event |-> "-", parent |-> "-",
     node |-> 0, published |-> << >>, calls |-> << >>, trace |-> << >>,
     thrower |-> "-", threw |-> "none", ret |-> "-", before |-> << >>,
     old |-> << >>]

\* The part of the state that on, publish and render change, as one value: a
\* listener that calls back into the instance changes it in mid-publish.
World ==
    [el |-> eventListeners, subdom |-> subdom, children |-> children,
     renders |-> renders, passed |-> passed, bound |-> bound,
     registered |-> registered]

\* One entry of the record of nested calls: a listener called, returned or
\* thrown out of, or a call made by a listener begun, done or failed.
Mark(depth, kind, name) == [depth |-> depth, kind |-> kind, name |-> name]

\* ----------------------------------------------------------------- render
\* Handlebars writes a missing property as the empty string.
Lookup(p, ref) == IF p[ref] = Undefined THEN "" ELSE p[ref]

\* this.compiledTemplate(this) raises when a property the template refers to
\* is a function that throws.
TemplateFails(p) ==
    \E i \in 1..Len(RAW_TEMPLATE) : p[RAW_TEMPLATE[i].ref] = BadValue

\* this.compiledTemplate(this): the markup, one element per template element.
CompiledTemplate(p) ==
    [i \in 1..Len(RAW_TEMPLATE) |->
        [cls |-> RAW_TEMPLATE[i].cls, text |-> Lookup(p, RAW_TEMPLATE[i].ref)]]

\* An innerHTML += markup: the old child nodes stay, the new ones follow.
SetInnerHTML_Appends(old, markup, gen) ==
    old \o [i \in 1..Len(markup) |->
              [gen |-> gen, cls |-> markup[i].cls, text |-> markup[i].text,
               handlers |-> << >>]]

\* A patch in place: existing nodes are kept, with their handlers, and only
\* their text is updated.
SetInnerHTML_KeepsNodes(old, markup, gen) ==
    [i \in 1..Len(markup) |->
        [gen |-> IF i <= Len(old) THEN old[i].gen ELSE gen,
         cls |-> markup[i].cls, text |-> markup[i].text,
         handlers |-> IF i <= Len(old) THEN old[i].handlers ELSE << >>]]

\* this.subdom.innerHTML = markup: the old child nodes (and their handlers)
\* are dropped and fresh nodes are parsed from the markup.
SetInnerHTML(old, markup, gen) ==
    [i \in 1..Len(markup) |->
        [gen |-> gen, cls |-> markup[i].cls, text |-> markup[i].text,
         handlers |-> << >>]]

\* this.subdom.innerHTML, read back: the markup of the current child nodes.
Markup(nodes) ==
    [i \in 1..Len(nodes) |-> [cls |-> nodes[i].cls, text |-> nodes[i].text]]

\* The child list without node.
RemoveNode(seq, node) == SelectSeq(seq, LAMBDA c : c # node)

\* An append that leaves the node in the child list of its former parent.
AppendChild_NoDetach(ch, parent, node) ==
    [p \in DOMAIN ch |->
        IF p = parent THEN Append(RemoveNode(ch[p], node), node) ELSE ch[p]]

\* An append that puts the node in front of the other children.
AppendChild_AsFirst(ch, parent, node) ==
    [p \in DOMAIN ch |->
        IF p = parent THEN << node >> \o RemoveNode(ch[p], node)
        ELSE RemoveNode(ch[p], node)]

\* parent.appendChild(node): a node already in the document is first removed
\* from its current parent, then added as the last child of parent.
AppendChild(ch, parent, node) ==
    [p \in DOMAIN ch |->
        IF p = parent THEN Append(RemoveNode(ch[p], node), node)
        ELSE RemoveNode(ch[p], node)]

\* Whether querySelectorAll accepts the selector.
IsValidSelector(sel) == sel \in {"*", ".item", ".btn"}

\* Whether a node matches a selector (querySelectorAll).
Matches(sel, node) ==
    \/ sel = "*"
    \/ sel = ".item" /\ node.cls = "item"
    \/ sel = ".btn" /\ node.cls = "btn"

\* One eventBinding: addEventListener(eventBinding[1], ...) on every match,
\* the handler publishing eventBinding[2]. (The JavaScript array is indexed
\* from 0, the tuple here from 1: selector, event name, tag.)
BindOne(nodes, eventBinding) ==
    [i \in 1..Len(nodes) |->
        IF Matches(eventBinding[1], nodes[i])
        THEN [nodes[i] EXCEPT !.handlers =
                 Append(@, << eventBinding[2], eventBinding[3] >>)]
        ELSE nodes[i]]

\* The position of the first binding whose selector is invalid, 0 if none.
FirstInvalid(bindings) ==
    IF \A i \in 1..Len(bindings) : IsValidSelector(bindings[i][1]) THEN 0
    ELSE CHOOSE i \in 1..Len(bindings) :
            /\ ~IsValidSelector(bindings[i][1])
            /\ \A j \in 1..(i - 1) : IsValidSelector(bindings[j][1])

\* A forEach over the bindings that goes from the last to the first.
RECURSIVE BindAll_LastFirst(_, _)
BindAll_LastFirst(nodes, bindings) ==
    IF bindings = << >> THEN nodes
    ELSE BindOne(BindAll_LastFirst(nodes, Tail(bindings)), Head(bindings))

\* A forEach over the bindings that skips a binding with an invalid selector
\* and goes on with the next one.
RECURSIVE BindAll_SkipsInvalid(_, _)
BindAll_SkipsInvalid(nodes, bindings) ==
    IF bindings = << >> THEN nodes
    ELSE IF ~IsValidSelector(Head(bindings)[1])
         THEN BindAll_SkipsInvalid(nodes, Tail(bindings))
         ELSE BindAll_SkipsInvalid(BindOne(nodes, Head(bindings)), Tail(bindings))

\* this.eventInterfaces.forEach(eventBinding => ...), in array order; the
\* SyntaxError querySelectorAll raises for an invalid selector ends the loop.
RECURSIVE BindAll(_, _)
BindAll(nodes, bindings) ==
    IF bindings = << >> THEN nodes
    ELSE IF ~IsValidSelector(Head(bindings)[1]) THEN nodes
         ELSE BindAll(BindOne(nodes, Head(bindings)), Tail(bindings))

\* The tags of the handlers of a node for one event name, in attach order.
RECURSIVE HandlerTags(_, _)
HandlerTags(handlers, name) ==
    IF handlers = << >> THEN << >>
    ELSE IF Head(handlers)[1] = name
         THEN << Head(handlers)[2] >> \o HandlerTags(Tail(handlers), name)
         ELSE HandlerTags(Tail(handlers), name)

\* A render that attaches the container before it evaluates the template.
RenderBody_AppendsFirst(w, parent) ==
    IF TemplateFails(props)
    THEN [w |-> [w EXCEPT !.children = AppendChild(@, parent, "subdom")],
          threw |-> "TemplateError"]
    ELSE [w |-> [w EXCEPT
                  !.subdom = BindAll(SetInnerHTML(w.subdom, CompiledTemplate(props),
                                                  w.renders + 1), eventInterfaces),
                  !.children = AppendChild(@, parent, "subdom"),
                  !.renders = @ + 1,
                  !.passed = @ \cup {parent},
                  !.bound = eventInterfaces],
          threw |-> "none"]

\* The body of render on the instance's state: the template is evaluated
\* first and its error leaves everything as it was; then the markup is
\* replaced, the container appended and the bindings bound up to the first
\* invalid selector.
RenderBody(w, parent) ==
    IF TemplateFails(props)
    THEN [w |-> w, threw |-> "TemplateError"]
    ELSE LET bad == FirstInvalid(eventInterfaces) IN
         [w |-> [w EXCEPT
                  !.subdom = BindAll(SetInnerHTML(w.subdom, CompiledTemplate(props),
                                                  w.renders + 1), eventInterfaces),
                  !.children = AppendChild(@, parent, "subdom"),
                  !.renders = @ + 1,
                  !.passed = @ \cup {parent},
                  !.bound = IF bad = 0 THEN eventInterfaces
                            ELSE SubSeq(eventInterfaces, 1, bad - 1)],
          threw |-> IF bad = 0 THEN "none" ELSE "SyntaxError"]

\* --------------------------------------------------------------------- on
\* The body of on on the instance's state.
OnBody(w, tag, listener) ==
    IF ~HasOwnPropertyIsCallable(w.el)
    THEN [w |-> w, threw |-> "TypeError"]
    ELSE [w |-> [w EXCEPT
                  !.el = PushListener(EnsureTag(@, tag), tag, listener),
                  !.registered[tag] = Append(@, listener)],
          threw |-> "none"]

\* ---------------------------------------------------------------- publish
\* listener => listener(event): one invocation, with event as only argument.
Invoke(listener, event) == << listener, << event >> >>

RECURSIVE PublishBody(_, _, _, _)
RECURSIVE ForEachListener(_, _, _, _)
RECURSIVE ForEachListener_Continues(_, _, _, _)
RECURSIVE InvokeListener(_, _, _, _)

\* A listener whose call into the instance is put off until later: the call
\* is begun but has not run when the listener returns.
InvokeListener_Deferred(w, f, event, depth) ==
    CASE f = Thrower -> [w |-> w, trace |-> << >>, threw |-> "Error"]
      [] f = Republisher ->
            [w |-> w, trace |-> << Mark(depth + 1, "publish", "saved") >>,
             threw |-> "none"]
      [] f = Rerenderer ->
            [w |-> w, trace |-> << Mark(depth + 1, "render", "panel") >>,
             threw |-> "none"]
      [] f = Registrar ->
            [w |-> w, trace |-> << Mark(depth + 1, "on", "itemClicked") >>,
             threw |-> "none"]
      [] OTHER -> [w |-> w, trace |-> << >>, threw |-> "none"]

\* listener(event): what the call does to the instance, the nested calls it
\* makes and the error that comes out of it.
InvokeListener(w, f, event, depth) ==
    CASE f = Thrower -> [w |-> w, trace |-> << >>, threw |-> "Error"]
      [] f = Republisher ->
            LET r == PublishBody(w, "saved", event, depth + 1) IN
            [w |-> r.w,
             trace |-> << Mark(depth + 1, "publish", "saved") >> \o r.trace \o
                       << Mark(depth + 1,
                               IF r.threw = "none" THEN "done" ELSE "failed",
                               "saved") >>,
             threw |-> r.threw]
      [] f = Rerenderer ->
            LET r == RenderBody(w, "panel") IN
            [w |-> r.w,
             trace |-> << Mark(depth + 1, "render", "panel"),
                          Mark(depth + 1,
                               IF r.threw = "none" THEN "done" ELSE "failed",
                               "panel") >>,
             threw |-> r.threw]
      [] f = Registrar ->
            LET r == OnBody(w, "itemClicked", "f2") IN
            [w |-> r.w,
             trace |-> << Mark(depth + 1, "on", "itemClicked"),
                          Mark(depth + 1,
                               IF r.threw = "none" THEN "done" ELSE "failed",
                               "itemClicked") >>,
             threw |-> r.threw]
      [] OTHER -> [w |-> w, trace |-> << >>, threw |-> "none"]

\* A forEach that catches the error of a listener and goes on.
ForEachListener_Continues(w, arr, event, depth) ==
    IF arr = << >>
    THEN [w |-> w, calls |-> << >>, trace |-> << >>, threw |-> "none",
          thrower |-> "-"]
    ELSE LET first == InvokeListener(w, Head(arr), event, depth)
             rest == ForEachListener_Continues(first.w, Tail(arr), event, depth)
         IN [w |-> rest.w,
             calls |-> << Invoke(Head(arr), event) >> \o rest.calls,
             trace |-> << Mark(depth, "call", Head(arr)) >> \o first.trace \o
                       << Mark(depth, IF first.threw = "none" THEN "return"
                                      ELSE "throw", Head(arr)) >> \o rest.trace,
             threw |-> IF first.threw # "none" THEN first.threw ELSE rest.threw,
             thrower |-> IF first.threw # "none" THEN Head(arr) ELSE rest.thrower]

\* this.eventListeners[tag].forEach(listener => listener(event)) over arr, the
\* elements the array had when forEach began: the invocations made, in order,
\* up to the first listener an error comes out of.
ForEachListener(w, arr, event, depth) ==
    IF arr = << >>
    THEN [w |-> w, calls |-> << >>, trace |-> << >>, threw |-> "none",
          thrower |-> "-"]
    ELSE LET first == InvokeListener(w, Head(arr), event, depth) IN
         IF first.threw # "none"
         THEN [w |-> first.w,
               calls |-> << Invoke(Head(arr), event) >>,
               trace |-> << Mark(depth, "call", Head(arr)) >> \o first.trace \o
                         << Mark(depth, "throw", Head(arr)) >>,
               threw |-> first.threw,
               thrower |-> Head(arr)]
         ELSE LET rest == ForEachListener(first.w, Tail(arr), event, depth) IN
              [w |-> rest.w,
               calls |-> << Invoke(Head(arr), event) >> \o rest.calls,
               trace |-> << Mark(depth, "call", Head(arr)) >> \o first.trace \o
                         << Mark(depth, "return", Head(arr)) >> \o rest.trace,
               threw |-> rest.threw,
               thrower |-> rest.thrower]

\* The body of publish on the instance's state: the new state, the listeners
\* it invoked itself, in order, the record of nested calls, and the error
\* raised (if any) with the listener it came out of.
PublishBody(w, tag, event, depth) ==
    IF depth > MaxDepth
    THEN [w |-> w, calls |-> << >>, trace |-> << >>, threw |-> "RangeError",
          thrower |-> "-"]
    ELSE IF ~HasOwnPropertyIsCallable(w.el)
    THEN [w |-> w, calls |-> << >>, trace |-> << >>, threw |-> "TypeError",
          thrower |-> "-"]
    ELSE ForEachListener([w EXCEPT !.el = EnsureTag(@, tag)],
                         GetArray(EnsureTag(w.el, tag), tag), event, depth)

\* One publish call as the last outcome records it: its arguments, the
\* invocations it made and the error it raised.
Published(tag, event, r) ==
    [tag |-> tag, event |-> event, calls |-> r.calls, threw |-> r.threw]

\* A host that runs the handlers of a node from the last added to the first.
RECURSIVE RunHandlers_LastFirst(_, _, _)
RunHandlers_LastFirst(w, tags, event) ==
    IF tags = << >>
    THEN [w |-> w, published |-> << >>, calls |-> << >>, threw |-> "none"]
    ELSE LET rest == RunHandlers_LastFirst(w, Tail(tags), event)
             first == PublishBody(rest.w, Head(tags), event, 0)
         IN [w |-> first.w,
             published |-> rest.published
                              \o << Published(Head(tags), event, first) >>,
             calls |-> rest.calls \o first.calls,
             threw |-> IF rest.threw # "none" THEN rest.threw ELSE first.threw]

\* Handlers run by the host for one native event, in the order they were
\* added: each calls this.publish(tag, event); an error raised inside a
\* handler is reported by the host and the next handler still runs.
RECURSIVE RunHandlers(_, _, _)
RunHandlers(w, tags, event) ==
    IF tags = << >>
    THEN [w |-> w, published |-> << >>, calls |-> << >>, threw |-> "none"]
    ELSE LET first == PublishBody(w, Head(tags), event, 0)
             rest == RunHandlers(first.w, Tail(tags), event)
         IN [w |-> rest.w,
             published |-> << Published(Head(tags), event, first) >>
                              \o rest.published,
             calls |-> first.calls \o rest.calls,
             threw |-> IF first.threw # "none" THEN first.threw ELSE rest.threw]

\* ------------------------------------------------------------------ state
Init ==
    /\ props = [k \in Keys |-> Undefined]
    /\ eventInterfaces = << >>
    /\ eventListeners = [own |-> << >>, proto |-> ObjectPrototype]
    /\ subdom = << >>
    /\ children = [p \in Parents |-> IF p = "panel" THEN << "sibling" >> ELSE << >>]
    /\ renders = 0
    /\ last = NoCall
    /\ registered = [t \in Tags |-> << >>]
    /\ written = [k \in Keys |-> Undefined]
    /\ passed = {}
    /\ bound = << >>

\* The state after a call that left the instance in state w.
Commit(w) ==
    /\ eventListeners' = w.el
    /\ subdom' = w.subdom
    /\ children' = w.children
    /\ renders' = w.renders
    /\ passed' = w.passed
    /\ bound' = w.bound
    /\ registered' = w.registered

\* The calls explored: those that leave the counters within the bounds (a
\* listener that registers or renders makes them grow in mid-publish).
InBounds(w) ==
    /\ w.renders <= MaxRenders
    /\ \A t \in Tags : Len(w.registered[t]) <= MaxListeners + 1

\* A set that keeps the first value assigned to a key.
SetBody_FirstValueWins(p, key, value) ==
    IF p[key] = Undefined THEN [p EXCEPT ![key] = value] ELSE p

\* this[key] = value, for a key that collides with no member the instance
\* already has (its fields, its methods, the members of Object.prototype).
SetBody(p, key, value) == [p EXCEPT ![key] = value]

Set(key, value) ==
    /\ props' = SetBody(props, key, value)
    /\ written' = [written EXCEPT ![key] = value]
    /\ last' = [NoCall EXCEPT !.op = "set", !.key = key, !.ret = "this"]
    /\ UNCHANGED << eventInterfaces, eventListeners, subdom, children, renders,
                    registered, passed, bound >>

\* on(tag, listener)
On(tag, listener) ==
    /\ Len(registered[tag]) < MaxListeners
    /\ LET r == OnBody(World, tag, listener) IN
        /\ Commit(r.w)
        /\ last' = [NoCall EXCEPT !.op = "on", !.tag = tag, !.threw = r.threw,
                       !.ret = IF r.threw = "none" THEN "this" ELSE "-"]
    /\ UNCHANGED << props, eventInterfaces, written >>

\* publish(tag, event)
Publish(tag, event) ==
    /\ LET r == PublishBody(World, tag, event, 0) IN
        /\ InBounds(r.w)
        /\ Commit(r.w)
        /\ last' = [NoCall EXCEPT !.op = "publish", !.tag = tag, !.event = event,
                       !.published = << Published(tag, event, r) >>,
                       !.calls = r.calls, !.trace = r.trace,
                       !.thrower = r.thrower, !.threw = r.threw,
                       !.ret = IF r.threw = "none" THEN Undefined ELSE "-",
                       !.before = registered[tag]]
    /\ UNCHANGED << props, eventInterfaces, written >>

\* this.eventInterfaces.push([selector, domEventName, tag]), done by the
\* application (a subclass constructor) on the array the constructor made.
DeclareBinding(b) ==
    /\ Len(eventInterfaces) < MaxBindings
    /\ eventInterfaces' = Append(eventInterfaces, b)
    /\ last' = NoCall
    /\ UNCHANGED << props, eventListeners, subdom, children, renders,
                    registered, written, passed, bound >>

\* render(parent)
Render(parent) ==
    /\ renders < MaxRenders
    /\ LET r == RenderBody(World, parent) IN
        /\ Commit(r.w)
        /\ last' = [NoCall EXCEPT !.op = "render", !.parent = parent,
                       !.threw = r.threw,
                       !.ret = IF r.threw = "none" THEN "this" ELSE "-",
                       !.before = children[parent], !.old = Markup(subdom)]
    /\ UNCHANGED << props, eventInterfaces, written >>

\* A native event named name fired by the host on the n-th node of subdom.
DomEvent(n, name) ==
    /\ n \in 1..Len(subdom)
    /\ LET r == RunHandlers(World, HandlerTags(subdom[n].handlers, name), name) IN
        /\ InBounds(r.w)
        /\ Commit(r.w)
        /\ last' = [NoCall EXCEPT !.op = "event", !.node = n, !.event = name,
                       !.published = r.published, !.calls = r.calls,
                       !.threw = r.threw]
    /\ UNCHANGED << props, eventInterfaces, written >>

SetStep == \E k \in Keys, v \in Values : Set(k, v)
OnStep == \E t \in Tags, f \in Listeners : On(t, f)
PublishStep == \E t \in Tags, e \in Events : Publish(t, e)
DeclareStep == \E b \in BindingChoices : DeclareBinding(b)
RenderStep == \E p \in Parents : Render(p)
DomEventStep == \E n \in 1..Len(RAW_TEMPLATE), name \in DomEventNames : DomEvent(n, name)

Next == SetStep \/ OnStep \/ PublishStep \/ DeclareStep \/ RenderStep \/ DomEventStep

\* The whole machine; the specifications below restrict it to the part a
\* group of properties is about, which keeps each state space small.
Spec == Init /\ [][Next]_vars

\* The publish/subscribe part alone: on and publish.
BusNext == OnStep \/ PublishStep
SpecBus == Init /\ [][BusNext]_vars

\* The property bag and the rendering alone: set and render.
DomNext == SetStep \/ RenderStep
SpecDom == Init /\ [][DomNext]_vars

\* Bindings, rendering into the document body, one listener and native events;
\* the tag "saved" is published by its binding but never listened to.
EventsOn == \E t \in Tags \ {"saved"} : On(t, "f1")
EventsRender == Render("body")
EventsNext == DeclareStep \/ EventsRender \/ EventsOn \/ DomEventStep
SpecEvents == Init /\ [][EventsNext]_vars

\* Listeners that call back into the instance or throw, registered under the
\* two ordinary tags, and publish calls.
NestedOn ==
    \/ \E f \in {"f1", Thrower, Republisher, Rerenderer, Registrar} :
            On("itemClicked", f)
    \/ \E f \in {"f2", Thrower, Republisher} : On("saved", f)
NestedPublish == \E t \in Tags \ {"__proto__"} : Publish(t, "e1")
NestedNext == NestedOn \/ NestedPublish
SpecNested == Init /\ [][NestedNext]_vars

\* Bindings, the invalid one among them, a property that makes the template
\* fail, and render.
RenderSet == \E v \in {"Alice", BadValue} : Set("name", v)
RenderDeclare == \E b \in BindingChoices \cup {InvalidBinding} : DeclareBinding(b)
RenderNext == RenderSet \/ RenderDeclare \/ RenderStep
SpecRender == Init /\ [][RenderNext]_vars

\* As SpecEvents, with every listener registered after the first render.
LateOn == renders > 0 /\ EventsOn
LateNext == DeclareStep \/ EventsRender \/ LateOn \/ DomEventStep
SpecLate == Init /\ [][LateNext]_vars

\* ------------------------------------------------------------- properties
Count(x, seq) == Cardinality({i \in 1..Len(seq) : seq[i] = x})
Range(seq) == {seq[i] : i \in 1..Len(seq)}

\* The listeners invoked by the last call, in order.
Invoked == [i \in 1..Len(last.calls) |-> last.calls[i][1]]

\* C1: a publish(tag, e) that follows exactly one on(tag, f) invokes f exactly
\* once, with e as its only argument, whatever the tag is.
C1_RegisteredOnceInvokedOnce ==
    \A f \in Listeners :
        (last.op = "publish" /\ Count(f, registered[last.tag]) = 1)
            => /\ last.threw = "none"
               /\ Count(f, Invoked) = 1
               /\ Count(<< f, << last.event >> >>, last.calls) = 1

\* C2: publish(tag, e) invokes the listeners registered under tag in exactly
\* the order of their on(tag, ...) calls.
C2_InvokedInRegistrationOrder ==
    last.op = "publish" => Invoked = registered[last.tag]

\* C3: publish(tag, e) for a tag without registered listener raises no error
\* and invokes no listener, whatever calls for other tags preceded it.
C3_PublishWithoutListenersNeverFails ==
    (last.op = "publish" /\ registered[last.tag] = << >>)
        => (last.threw = "none" /\ last.calls = << >>)

\* C4: a listener registered k times under a tag is invoked exactly k times
\* by every publish of that tag (no duplicate detection).
C4_RegisteredTwiceInvokedTwice ==
    \A f \in Listeners :
        last.op = "publish"
            => Count(f, Invoked) = Count(f, registered[last.tag])

\* The parents whose child list holds the container.
AttachedTo == {p \in Parents : "subdom" \in Range(children[p])}

C6_RenderAddsOneChild ==
    (last.op = "render" /\ last.threw = "none")
        => /\ Len(children[last.parent]) = Len(last.before) + 1
           /\ children[last.parent][Len(children[last.parent])] = "subdom"
           /\ Markup(subdom) = CompiledTemplate(props)

\* C6 amended: every render(parent) whose template evaluation succeeds
\* leaves the container as the last child of parent, exactly once; parent has one more child than before when the
\* container was not its child already and as many as before when it was; the
\* other children keep their order; the markup is the template evaluated on
\* the latest property values.
C6_RenderLeavesContainerLastChild ==
    (last.op = "render" /\ last.threw # "TemplateError")
        => /\ Count("subdom", children[last.parent]) = 1
           /\ children[last.parent][Len(children[last.parent])] = "subdom"
           /\ Len(children[last.parent]) =
                 IF "subdom" \in Range(last.before)
                 THEN Len(last.before) ELSE Len(last.before) + 1
           /\ SubSeq(children[last.parent], 1, Len(children[last.parent]) - 1)
                 = SelectSeq(last.before, LAMBDA c : c # "subdom")
           /\ Markup(subdom) = CompiledTemplate(props)

C6_Witness ==
    /\ last.op = "render"
    /\ last.threw = "none"
    /\ last.parent = "panel"
    /\ last.before = << "sibling", "subdom" >>
    /\ written["name"] = "Bob"
    /\ Markup(subdom)[1].text = "Bob"

\* C7: a render that follows an earlier render with other property values
\* (and evaluates its template without error) leaves only nodes made by this call, one per template element, each showing
\* the current value: nothing of the earlier rendering is kept.
C7_RenderReplacesMarkup ==
    (last.op = "render" /\ last.threw # "TemplateError" /\ renders >= 2)
        => /\ Len(subdom) = Len(RAW_TEMPLATE)
           /\ \A i \in 1..Len(subdom) :
                 /\ subdom[i].gen = renders
                 /\ subdom[i].text = Lookup(props, RAW_TEMPLATE[i].ref)

C7_Witness ==
    /\ last.op = "render"
    /\ last.threw = "none"
    /\ renders >= 2
    /\ last.old = << [cls |-> "item", text |-> "Alice"], [cls |-> "btn", text |-> ""] >>
    /\ Markup(subdom) = << [cls |-> "item", text |-> "Bob"], [cls |-> "btn", text |-> "Alice"] >>

\* The bindings the last render call bound on node n for the event name.
BoundOn(n, name) ==
    SelectSeq(bound, LAMBDA b : Matches(b[1], subdom[n]) /\ b[2] = name)

\* C8: after render, a native event on a node makes, for every binding that
\* matches the node and names the event, one call publish(tag, event), and
\* that call invokes a listener registered once under tag once with the event.
C8_NativeEventReachesListener ==
    last.op = "event"
        => /\ Len(last.published) = Len(BoundOn(last.node, last.event))
           /\ \A j \in 1..Len(BoundOn(last.node, last.event)) :
                \E i \in 1..Len(last.published) :
                    /\ last.published[i].tag = BoundOn(last.node, last.event)[j][3]
                    /\ last.published[i].event = last.event
                    /\ \A f \in Listeners :
                          Count(f, registered[last.published[i].tag]) = 1
                              => Count(<< f, << last.event >> >>,
                                       last.published[i].calls) = 1

\* C9: the container is a child of at most one parent at any time, and occurs
\* at most once in that parent's child list.
C9_AtMostOneParent ==
    /\ Cardinality(AttachedTo) <= 1
    /\ \A p \in Parents : Count("subdom", children[p]) <= 1

C9_Witness ==
    /\ passed = Parents
    /\ AttachedTo = {"panel"}

\* C10 as stated: the container stays attached to every parent ever passed to
\* render.
C10_AttachedToEveryParentPassed ==
    \A p \in passed : p \in AttachedTo

\* C10 amended: render(parent), once its template is evaluated, detaches the container from the parent of the
\* earlier render call, so after render calls with different parents it is
\* attached to the parent of the latest call only.
C10_AttachedToLatestParentOnly ==
    (last.op = "render" /\ last.threw # "TemplateError")
        => /\ AttachedTo = {last.parent}
           /\ \A p \in passed \ {last.parent} : "subdom" \notin Range(children[p])

C10_Witness ==
    /\ last.op = "render"
    /\ last.threw = "none"
    /\ last.parent = "body"
    /\ "panel" \in passed

\* The names of the entries of kind kind at depth depth among the entries
\* from..to of the record of nested calls, in order.
RECURSIVE NamesBetween(_, _, _, _)
NamesBetween(from, to, kind, depth) ==
    IF from > to THEN << >>
    ELSE IF last.trace[from].kind = kind /\ last.trace[from].depth = depth
         THEN << last.trace[from].name >> \o NamesBetween(from + 1, to, kind, depth)
         ELSE NamesBetween(from + 1, to, kind, depth)

\* C11: when an error comes out of a listener during publish(tag, e), it
\* comes out of publish; the listeners registered before that listener were
\* invoked, in order, and no listener registered after it is invoked.
C11_ListenerErrorEndsPublish ==
    /\ (last.op = "publish" /\ last.thrower # "-")
          => /\ last.threw # "none"
             /\ Len(last.calls) >= 1
             /\ Len(last.calls) <= Len(last.before)
             /\ Invoked = SubSeq(last.before, 1, Len(last.calls))
             /\ Invoked[Len(last.calls)] = last.thrower
    /\ (last.op = "publish" /\ Thrower \in Range(Invoked))
          => /\ last.threw = "Error"
             /\ last.thrower = Thrower
             /\ Count(Thrower, Invoked) = 1

C11_Witness ==
    /\ last.op = "publish"
    /\ last.before = << Thrower, "f1" >>
    /\ last.threw = "Error"
    /\ Invoked = << Thrower >>

C17_ListenerAddedInPublish ==
    (last.op = "publish" /\ last.tag = "itemClicked")
        => /\ Len(Invoked) <= Len(last.before)
           /\ Invoked = SubSeq(last.before, 1, Len(Invoked))
           /\ \A k \in 1..Len(last.before) :
                 (last.before[k] = "f2" /\ last.thrower = "-")
                     => (Len(Invoked) >= k /\ Invoked[k] = "f2")

\* The tags published by the last call, in order.
PublishedTags == [i \in 1..Len(last.published) |-> last.published[i].tag]

\* The tags of a sequence of bindings, in order.
TagsOf(bindings) == [j \in 1..Len(bindings) |-> bindings[j][3]]

\* C13: after any number of render calls, a native event on a node of the
\* current rendering causes exactly one publish(tag, event) for each binding
\* that matches the node and names the event: handlers do not accumulate.
C13_HandlersDoNotAccumulate ==
    last.op = "event"
        => /\ Len(last.published) = Len(BoundOn(last.node, last.event))
           /\ \A t \in Tags :
                 Count(t, PublishedTags)
                     = Count(t, TagsOf(BoundOn(last.node, last.event)))
           /\ \A i \in 1..Len(last.published) :
                 last.published[i].event = last.event

C13_Witness ==
    /\ last.op = "event"
    /\ renders >= 2
    /\ subdom[last.node].gen = renders
    /\ PublishedTags = << "itemClicked" >>

\* C14: one event on a node that two bindings match for the same event name
\* publishes the tag of the binding declared first before the tag of the
\* binding declared later.
C14_PublishedInDeclarationOrder ==
    last.op = "event"
        => PublishedTags = TagsOf(BoundOn(last.node, last.event))

C14_Witness ==
    /\ last.op = "event"
    /\ bound = << <<"*", "click", "saved">>, <<".item", "click", "itemClicked">> >>
    /\ PublishedTags = << "saved", "itemClicked" >>

\* The listener array the instance holds for a tag.
Stored(t) ==
    IF t \in DOMAIN eventListeners.own THEN eventListeners.own[t]
    ELSE IF t = "__proto__" THEN eventListeners.proto.items
    ELSE << >>

\* C15: on(tag, f) only appends f to the sequence of tag and no call removes
\* or reorders a registered listener: the sequence the instance holds for
\* each tag is the sequence of the listeners registered under it.
C15_RegisteredListenersStay ==
    \A t \in Tags : Stored(t) = registered[t]

\* C16: a listener registered after render is invoked by every later native
\* event on a node that a binding with its tag matched: every publish made
\* for the event invokes the listeners registered under its tag by then.
C16_LateListenerIsInvoked ==
    last.op = "event"
        => \A i \in 1..Len(last.published) :
              [k \in 1..Len(last.published[i].calls) |->
                    last.published[i].calls[k][1]]
                  = registered[last.published[i].tag]

\* C18: a render whose template evaluation fails raises the error and has no
\* effect: markup, nodes and handlers of the container, the child lists of
\* the parents and the bindings bound are what they were before the call.
C18_FailedTemplateHasNoEffect ==
    [][(last'.op = "render" /\ last'.threw = "TemplateError")
          => /\ last'.ret # "this"
             /\ subdom' = subdom
             /\ children' = children
             /\ bound' = bound
             /\ renders' = renders]_vars

C18_Witness ==
    /\ last.op = "render"
    /\ last.threw = "TemplateError"
    /\ last.parent = "panel"
    /\ children["body"] = << "subdom" >>
    /\ \E n \in 1..Len(subdom) : subdom[n].handlers # << >>

\* The handlers the bindings before position i attach to a node.
HandlersBefore(i, node) ==
    LET bs == SelectSeq(SubSeq(eventInterfaces, 1, i - 1),
                        LAMBDA b : Matches(b[1], node))
    IN [j \in 1..Len(bs) |-> << bs[j][2], bs[j][3] >>]

====
